---- MODULE Spec2Model ----
(***************************************************************************)
(* Pokemon battle backend: the battle use case, the transactional          *)
(* controller decorator, the singleton PostgreSQL connection manager and   *)
(* the Pokemon repository, with concurrent HTTP requests interleaving at   *)
(* every await.                                                            *)
(*                                                                         *)
(* One step of a request is the code between two awaits: the statement     *)
(* that was pending is executed by the database, its result is returned,   *)
(* the synchronous continuation runs, and the next statement is issued on  *)
(* the handle that getDb() returns at that moment.                         *)
(***************************************************************************)
EXTENDS Integers, Sequences, FiniteSets, TLC

----------------------------------------------------------------------------
(* Bounds of the model *)

\* pokemons already stored when the server starts
NumInit == 4
\* a random draw of Math.random() is k / RDenom, k in 0 .. RDenom-1
RDenom == 4
\* connections that may be lost in one run
MaxFaults == 1
\* highest level of the pokemons handed to pickWinnerWeighted on its own
MaxLevel == 5

\* in-flight HTTP requests (one request per process)
Procs == {1, 2}
\* pool clients: one per request, one for the statements that run on the pool
\* itself and one per lost connection, so that the pool (max: 20) is never
\* exhausted
Clients == 1 .. (Cardinality(Procs) + 1 + MaxFaults)
Ids == 1 .. (NumInit + Cardinality(Procs))
\* the first id that is not stored when the server starts
Missing == NumInit + 1
\* the inputs of the battle requests: disjoint and overlapping pairs of stored
\* pokemons with different and with equal levels, the same id twice (stored
\* and not stored), and pairs with one or both ids not stored
BattleInputs ==
    {<<1, 2>>, <<2, 1>>, <<3, 4>>, <<2, 3>>, <<2, 4>>, <<1, 1>>,
     <<Missing, Missing>>, <<Missing, 2>>, <<1, Missing>>, <<Missing, Missing + 1>>}
\* the ids the other requests name: level 2, level 1, not stored
OtherIds == {1, 2, Missing}
Treinadores == {"Red"}
Tipos == {"pikachu", "charizard", "mewtwo"}
\* tipo values the requests use when creating
CreateTipos == {"mewtwo"}
\* values of a direct repository.updateNivel call
DirectLevels == {0}
RandomValues == 0 .. (RDenom - 1)

----------------------------------------------------------------------------
(* Values *)

\* this.client === undefined
NoClient == 0
\* db handles: drizzle(this.pool), drizzle(undefined), this.transactionDb === undefined
PoolDb == 0
InvalidDb == -1
NoTxDb == -2

NoPokemon == [id |-> 0, tipo |-> "none", treinador |-> "none", nivel |-> 0]
PokemonModel(id, row) ==
    [id |-> id, tipo |-> row.tipo, treinador |-> row.treinador, nivel |-> row.nivel]

\* a table row; by is the request that last wrote its nivel or its existence
\* (0: as it was when the server started)
Row(tipo, treinador, nivel, by) ==
    [exists |-> TRUE, tipo |-> tipo, treinador |-> treinador, nivel |-> nivel, by |-> by]
Absent(by) ==
    [exists |-> FALSE, tipo |-> "none", treinador |-> "none", nivel |-> 0, by |-> by]

\* a statement, the handle h it was issued on, and the requests whose
\* statements were issued on the same client before it and have not run yet
NoStmt ==
    [k |-> "none", id |-> 0, n |-> 0, tipo |-> "none", treinador |-> "none", h |-> NoTxDb,
     behind |-> {}]
Stmt(k, id, n, tipo, treinador) ==
    [k |-> k, id |-> id, n |-> n, tipo |-> tipo, treinador |-> treinador, h |-> NoTxDb,
     behind |-> {}]

Call(f, id, v) == [f |-> f, id |-> id, v |-> v]

NoResponse == [st |-> "none", err |-> "", vencedor |-> NoPokemon, perdedor |-> NoPokemon]
Thrown(err) == [st |-> "throw", err |-> err, vencedor |-> NoPokemon, perdedor |-> NoPokemon]
ok(vencedor, perdedor) ==
    [st |-> "ok", err |-> "", vencedor |-> vencedor, perdedor |-> perdedor]
created(pokemon) == [st |-> "created", err |-> "", vencedor |-> pokemon, perdedor |-> NoPokemon]
noContent == [st |-> "noContent", err |-> "", vencedor |-> NoPokemon, perdedor |-> NoPokemon]
notFound(err) == [st |-> "notFound", err |-> err, vencedor |-> NoPokemon, perdedor |-> NoPokemon]
badRequest(err) == [st |-> "badRequest", err |-> err, vencedor |-> NoPokemon, perdedor |-> NoPokemon]

NoLocals ==
    [pokemonA |-> NoPokemon, pokemonB |-> NoPokemon, winner |-> NoPokemon, loser |-> NoPokemon,
     newWinnerLevel |-> 0, newLoserLevel |-> 0, response |-> NoResponse, error |-> "",
     loaded |-> FALSE, caught |-> "", performed |-> "", randomValue |-> 0,
     resolved |-> 0, ownClient |-> NoClient]

NoRequest == [op |-> "none", a |-> 0, b |-> 0, tipo |-> "none", treinador |-> "none", n |-> 0]

----------------------------------------------------------------------------
VARIABLES
    pool,           \* PgConnection.pool is set (connect() was called)
    client,         \* PgConnection.client
    transactionDb,  \* PgConnection.transactionDb
    checkedOut,     \* pool clients currently checked out of the pool
    stored,         \* the pokemons table, committed rows
    txState,        \* per pool client: "none", "open" or "aborted" transaction,
                    \* or "broken" once its connection is lost
    pending,        \* per pool client: uncommitted writes of its transaction
    nextId,         \* the serial sequence of pokemons.id
    pc,             \* per request: the await it is suspended at
    req,            \* per request: the operation and its input
    stmt,           \* per request: the statement awaiting execution
    loc,            \* per request: local variables of the use case and the decorator
    log,            \* per request: the calls made so far
    out,            \* per request: what the caller received
    faults          \* infrastructure failures injected so far

dbVars == <<stored, txState, pending, nextId>>
connVars == <<client, transactionDb, checkedOut>>
vars == <<pool, client, transactionDb, checkedOut, stored, txState, pending, nextId,
          pc, req, stmt, loc, log, out, faults>>

----------------------------------------------------------------------------
(* PostgreSQL as the repository and the connection manager use it:         *)
(* READ COMMITTED transactions per pool client, row locks, the serial id   *)
(* and the CHECK constraint of the pokemons table.                         *)

Db == [stored |-> stored, txState |-> txState, pending |-> pending, nextId |-> nextId]

NoWrites == [i \in {} |-> Absent(0)]
PutWrite(w, id, row) == [i \in (DOMAIN w) \cup {id} |-> IF i = id THEN row ELSE w[i]]

\* the rows a statement on client c sees: committed rows and its own writes
Visible(d, c) ==
    [i \in Ids |-> IF d.txState[c] # "none" /\ i \in DOMAIN d.pending[c]
                   THEN d.pending[c][i] ELSE d.stored[i]]

\* write one row: into the open transaction of c, or autocommitted
WriteRow(d, c, id, row) ==
    IF d.txState[c] = "open"
    THEN [d EXCEPT !.pending[c] = PutWrite(d.pending[c], id, row)]
    ELSE [d EXCEPT !.stored[id] = row]

\* a failed statement aborts the open transaction of its client
AbortTx(d, c) ==
    IF d.txState[c] = "open" THEN [d EXCEPT !.txState[c] = "aborted"] ELSE d

\* check("nivel_nao_negativo", sql`${table.nivel} >= 0`)
\* (variant without the constraint)
nivelNaoNegativoMutant(nivel) == TRUE
nivelNaoNegativo(nivel) == nivel >= 0

\* check("tipo_valido", ...)
tipoValido(tipo) == tipo \in Tipos

IsWrite(s) == s.k \in {"updateNivel", "updateTreinador", "delete"}

\* a write waits for the row lock while another transaction holds an
\* uncommitted write of the row
Blocked(d, c, s) ==
    /\ IsWrite(s)
    /\ d.stored[s.id].exists
    /\ \E o \in Clients \ {c} : s.id \in DOMAIN d.pending[o]

Result(err, d, val) == [err |-> err, db |-> d, val |-> val, fault |-> FALSE]

\* db.select().from(pokemons).where(eq(pokemons.id, id)).limit(1)
SqlSelect(d, c, s) ==
    LET row == Visible(d, c)[s.id]
    IN Result("", d, IF row.exists THEN PokemonModel(s.id, row) ELSE NoPokemon)

\* (variant that adds to the level the row has: set nivel = nivel + 1 or - 1)
SqlUpdateNivelRelative(d, c, s, r) ==
    LET row == Visible(d, c)[s.id]
        n == IF s.n = 0 THEN 0 ELSE IF s.n > row.nivel THEN row.nivel + 1 ELSE row.nivel
    IN IF ~row.exists THEN Result("", d, NoPokemon)
       ELSE IF ~nivelNaoNegativo(s.n) THEN Result("QueryError", AbortTx(d, c), NoPokemon)
       ELSE Result("", WriteRow(d, c, s.id, [row EXCEPT !.nivel = n, !.by = r]), NoPokemon)

\* (variant that also clears the treinador: set({ nivel, treinador: "none" }))
SqlUpdateNivelRewrite(d, c, s, r) ==
    LET row == Visible(d, c)[s.id]
    IN IF ~row.exists THEN Result("", d, NoPokemon)
       ELSE IF ~nivelNaoNegativo(s.n) THEN Result("QueryError", AbortTx(d, c), NoPokemon)
       ELSE Result("", WriteRow(d, c, s.id,
                                [row EXCEPT !.nivel = s.n, !.treinador = "none", !.by = r]),
                   NoPokemon)

\* db.update(pokemons).set({ nivel }).where(eq(pokemons.id, id))
SqlUpdateNivel(d, c, s, r) ==
    LET row == Visible(d, c)[s.id]
    IN IF ~row.exists THEN Result("", d, NoPokemon)
       ELSE IF ~nivelNaoNegativo(s.n) THEN Result("QueryError", AbortTx(d, c), NoPokemon)
       ELSE Result("", WriteRow(d, c, s.id, [row EXCEPT !.nivel = s.n, !.by = r]), NoPokemon)

\* (variant that writes the whole row anew, at the creation level)
SqlUpdateTreinadorMutant(d, c, s, r) ==
    LET row == Visible(d, c)[s.id]
    IN IF ~row.exists THEN Result("", d, NoPokemon)
       ELSE Result("", WriteRow(d, c, s.id, Row(row.tipo, s.treinador, 1, row.by)),
                   NoPokemon)

\* db.update(pokemons).set({ treinador }).where(eq(pokemons.id, id))
SqlUpdateTreinador(d, c, s, r) ==
    LET row == Visible(d, c)[s.id]
    IN IF ~row.exists THEN Result("", d, NoPokemon)
       ELSE Result("", WriteRow(d, c, s.id, [row EXCEPT !.treinador = s.treinador]),
                   NoPokemon)

\* (variant whose where clause matches the rows of the same treinador)
SqlDeleteMutant(d, c, s, r) ==
    LET row == Visible(d, c)[s.id]
        same == {i \in Ids : Visible(d, c)[i].exists
                                /\ Visible(d, c)[i].treinador = row.treinador}
        other == IF same \ {s.id} = {} THEN s.id
                 ELSE CHOOSE i \in same \ {s.id} : TRUE
    IN IF ~row.exists THEN Result("", d, NoPokemon)
       ELSE Result("", WriteRow(WriteRow(d, c, s.id, Absent(r)), c, other, Absent(r)),
                   NoPokemon)

\* db.delete(pokemons).where(eq(pokemons.id, id))
SqlDelete(d, c, s, r) ==
    LET row == Visible(d, c)[s.id]
    IN IF ~row.exists THEN Result("", d, NoPokemon)
       ELSE Result("", WriteRow(d, c, s.id, Absent(r)), NoPokemon)

\* (variant that takes the lowest id no row uses)
SqlInsertReuse(d, c, s, r) ==
    LET free == {i \in Ids : ~d.stored[i].exists
                              /\ \A o \in Clients : i \notin DOMAIN d.pending[o]}
        id == IF free = {} THEN d.nextId ELSE CHOOSE i \in free : \A j \in free : i <= j
        d1 == [d EXCEPT !.nextId = IF id >= d.nextId THEN id + 1 ELSE d.nextId]
        row == Row(s.tipo, s.treinador, 1, r)
    IN Result("", WriteRow(d1, c, id, row), PokemonModel(id, row))
\* (variant that stores the level given with the statement)
SqlInsertMutant(d, c, s, r) ==
    LET id == d.nextId
        d1 == [d EXCEPT !.nextId = id + 1]
        row == Row(s.tipo, s.treinador, s.n, r)
    IN Result("", WriteRow(d1, c, id, row), PokemonModel(id, row))
\* db.insert(pokemons).values({ tipo, treinador }).returning(): id from the
\* serial sequence (consumed even if the transaction rolls back), nivel default 1
SqlInsert(d, c, s, r) ==
    LET id == d.nextId
        d1 == [d EXCEPT !.nextId = id + 1]
        row == Row(s.tipo, s.treinador, 1, r)
    IN IF ~tipoValido(s.tipo) THEN Result("QueryError", AbortTx(d1, c), NoPokemon)
       ELSE Result("", WriteRow(d1, c, id, row), PokemonModel(id, row))

\* client.query("BEGIN")
SqlBegin(d, c) ==
    Result("", IF d.txState[c] = "none" THEN [d EXCEPT !.txState[c] = "open"] ELSE d, NoPokemon)

\* client.query("COMMIT"): an aborted transaction is rolled back instead
SqlCommit(d, c) ==
    LET w == d.pending[c]
        merged == [i \in Ids |-> IF i \in DOMAIN w THEN w[i] ELSE d.stored[i]]
    IN Result("",
              [d EXCEPT !.stored = IF d.txState[c] = "open" THEN merged ELSE d.stored,
                        !.pending[c] = NoWrites,
                        !.txState[c] = "none"],
              NoPokemon)

\* client.query("ROLLBACK")
SqlRollback(d, c) ==
    Result("", [d EXCEPT !.pending[c] = NoWrites, !.txState[c] = "none"], NoPokemon)

\* the error of a statement that fails for want of a connection: BEGIN, COMMIT
\* and ROLLBACK go through this.client.query and reject with the driver's
\* error, the repository's statements go through drizzle
ConnectionErrorOf(s) ==
    IF s.k \in {"BEGIN", "COMMIT", "ROLLBACK"} THEN "ConnectionError" ELSE "QueryError"

\* one statement of request r on pool client c
Sql(d, c, s, r) ==
    IF d.txState[c] = "broken" THEN Result(ConnectionErrorOf(s), d, NoPokemon)
    ELSE IF s.k = "BEGIN" THEN SqlBegin(d, c)
    ELSE IF s.k = "COMMIT" THEN SqlCommit(d, c)
    ELSE IF s.k = "ROLLBACK" THEN SqlRollback(d, c)
    ELSE IF d.txState[c] = "aborted" THEN Result("QueryError", d, NoPokemon)
    ELSE IF s.k = "select" THEN SqlSelect(d, c, s)
    ELSE IF s.k = "updateNivel" THEN SqlUpdateNivel(d, c, s, r)
    ELSE IF s.k = "updateTreinador" THEN SqlUpdateTreinador(d, c, s, r)
    ELSE IF s.k = "delete" THEN SqlDelete(d, c, s, r)
    ELSE SqlInsert(d, c, s, r)

\* the connection of client c is lost while the statement runs: the statement
\* fails, the server discards the transaction, and every later statement on
\* this client fails (the pool does not hand the client out again)
SqlFault(d, c, s) ==
    [err |-> ConnectionErrorOf(s),
     db |-> [d EXCEPT !.pending[c] = NoWrites, !.txState[c] = "broken"],
     val |-> NoPokemon, fault |-> TRUE]

\* idle clients the pool can hand out; of several idle clients in the same
\* state the lowest one stands for all
IdleClients ==
    {c \in Clients :
        /\ ~checkedOut[c]
        /\ txState[c] # "broken"
        /\ \A o \in Clients :
              (~checkedOut[o] /\ txState[o] = txState[c] /\ pending[o] = pending[c]) => c <= o}

\* the clients a statement issued on handle h runs on
RunsOn(h) == IF h = PoolDb THEN IdleClients ELSE {h}

FaultChoices == IF faults < MaxFaults THEN {FALSE, TRUE} ELSE {FALSE}

\* the possible results of the pending statement of request p
Exec(p) ==
    LET s == stmt[p]
    IN IF s.behind # {} THEN {}
       ELSE IF s.h = InvalidDb
       THEN {Result("TypeError", Db, NoPokemon)}
       ELSE {IF f THEN SqlFault(Db, c, s) ELSE Sql(Db, c, s, p) :
                c \in {x \in RunsOn(s.h) : ~Blocked(Db, x, s)}, f \in FaultChoices}

SetDb(res) ==
    /\ stored' = res.db.stored
    /\ txState' = res.db.txState
    /\ pending' = res.db.pending
    /\ nextId' = res.db.nextId
    /\ faults' = IF res.fault THEN faults + 1 ELSE faults

----------------------------------------------------------------------------
(* PgConnection (singleton) and DbTransactionController.perform            *)

\* the connection manager's fields as one value
Conn == [client |-> client, transactionDb |-> transactionDb, checkedOut |-> checkedOut]

\* PgConnection.getDb: the transaction handle if one is set, else the pool handle
getDb(k) == IF k.transactionDb # NoTxDb THEN k.transactionDb ELSE PoolDb

\* getDb throws ConnectionNotFoundError
getDbThrows(k) == k.transactionDb = NoTxDb /\ ~pool

\* drizzle(this.client, { schema })
drizzle(c) == IF c = NoClient THEN InvalidDb ELSE c

\* PgConnection.closeTransaction
closeTransaction(k) ==
    IF k.client # NoClient
    THEN [client |-> NoClient, transactionDb |-> NoTxDb,
          checkedOut |-> [k.checkedOut EXCEPT ![k.client] = FALSE]]
    ELSE k

\* operations whose controller is wrapped by DbTransactionController
Wrapped(op) == op \in {"battle", "create", "delete", "updateTreinador"}

\* the statements in flight once request p has s in flight: a client runs its
\* statements in the order they were issued
Queue(p, s) ==
    [q \in Procs |->
        IF q = p
        THEN [s EXCEPT !.behind = {o \in Procs \ {p} : s.h \in Clients /\ stmt[o].h = s.h
                                                       /\ stmt[o].k # "none"}]
        ELSE [stmt[q] EXCEPT !.behind = @ \ {p}]]

\* the request ends: the caller receives outcome
Finish(p, outcome, l, lg, k) ==
    /\ pc' = [pc EXCEPT ![p] = "done"]
    /\ stmt' = Queue(p, NoStmt)
    /\ loc' = [loc EXCEPT ![p] = l]
    /\ log' = [log EXCEPT ![p] = lg]
    /\ out' = [out EXCEPT ![p] = outcome]
    /\ client' = k.client
    /\ transactionDb' = k.transactionDb
    /\ checkedOut' = k.checkedOut

\* suspend at an await with statement s issued on handle h
Issue(p, next, s, h, l, lg, k) ==
    /\ pc' = [pc EXCEPT ![p] = next]
    /\ stmt' = Queue(p, [s EXCEPT !.h = h])
    /\ loc' = [loc EXCEPT ![p] = l]
    /\ log' = [log EXCEPT ![p] = lg]
    /\ out' = out
    /\ client' = k.client
    /\ transactionDb' = k.transactionDb
    /\ checkedOut' = k.checkedOut

\* finally { await this.db.closeTransaction(); }
\* (variant without the finally block)
FinallyMutant(p, outcome, l, lg, k) == Finish(p, outcome, l, lg, k)
Finally(p, outcome, l, lg, k) ==
    Finish(p, outcome, l, Append(lg, Call("closeTransaction", 0, 0)), closeTransaction(k))

\* catch (error) { await this.db.rollback(); throw error; }
\* rollback throws TransactionNotFoundError if no client is held
Catch(p, err, l, lg, k) ==
    LET lg2 == Append(lg, Call("rollback", 0, 0))
    IN IF k.client = NoClient
       THEN Finally(p, Thrown("TransactionNotFoundError"), [l EXCEPT !.error = err], lg2, k)
       ELSE Issue(p, "rollback", Stmt("ROLLBACK", 0, 0, "none", "none"), k.client,
                  [l EXCEPT !.error = err], lg2, k)

\* the decorated controller returned: await this.db.commit(); return response
\* commit throws TransactionNotFoundError if no client is held
DecorateeReturned(p, response, l, lg, k) ==
    LET lg2 == Append(lg, Call("commit", 0, 0))
        l2 == [l EXCEPT !.response = response, !.performed = "returned"]
    IN IF ~Wrapped(req[p].op) THEN Finish(p, response, l2, lg, k)
       ELSE IF k.client = NoClient
       THEN Catch(p, "TransactionNotFoundError", l2, lg2, k)
       ELSE Issue(p, "commit", Stmt("COMMIT", 0, 0, "none", "none"), k.client, l2, lg2, k)

\* the decorated controller threw
DecorateeThrew(p, err, l, lg, k) ==
    LET l2 == [l EXCEPT !.performed = "threw"]
    IN IF ~Wrapped(req[p].op) THEN Finish(p, Thrown(err), l2, lg, k)
       ELSE Catch(p, err, l2, lg, k)

\* the catch blocks of the controllers' perform: which errors of the use
\* case become a response
Handled(op, err) ==
    \/ op \in {"battle", "delete", "updateTreinador"} /\ err = "Pokemon not found"
    \/ op = "battle" /\ err = "Cannot battle the same pokemon"

\* return notFound(error) / return badRequest(error)
ErrorResponse(err) ==
    IF err = "Pokemon not found" THEN notFound(err) ELSE badRequest(err)

\* the use case threw err inside the controller's perform
UseCaseThrew(p, err, l, lg, k) ==
    LET l2 == [l EXCEPT !.caught = err]
    IN IF Handled(req[p].op, err)
       THEN DecorateeReturned(p, ErrorResponse(err), l2, lg, k)
       ELSE DecorateeThrew(p, err, l2, lg, k)

\* (variant that issues the call a second time)
RepoCallTwice(p, next, s, c, l, lg, k) ==
    Issue(p, next, s, getDb(k), l, Append(Append(lg, c), c), k)
\* a repository method: const db = this.getDb(); await db.<statement>
RepoCall(p, next, s, c, l, lg, k) ==
    IF getDbThrows(k)
    THEN UseCaseThrew(p, "ConnectionNotFoundError", l, Append(lg, c), k)
    ELSE Issue(p, next, s, getDb(k), l, Append(lg, c), k)

----------------------------------------------------------------------------
(* Battle: pickWinnerWeighted and setupBattlePokemon *)

\* (variant that lets A win a draw equal to its probability)
pickWinnerWeightedTie(pokemonA, pokemonB, r) ==
    LET totalLevel == pokemonA.nivel + pokemonB.nivel
    IN IF totalLevel # 0 /\ r * totalLevel <= pokemonA.nivel * RDenom
       THEN [winner |-> pokemonA, loser |-> pokemonB]
       ELSE [winner |-> pokemonB, loser |-> pokemonA]
\* (variant in which a comparison with NaN is true: A wins when both levels are 0)
pickWinnerWeightedNaN(pokemonA, pokemonB, r) ==
    LET totalLevel == pokemonA.nivel + pokemonB.nivel
    IN IF totalLevel = 0 \/ r * totalLevel < pokemonA.nivel * RDenom
       THEN [winner |-> pokemonA, loser |-> pokemonB]
       ELSE [winner |-> pokemonB, loser |-> pokemonA]
\* (variant that ignores the levels: A wins a draw below 1/2)
pickWinnerWeightedUniform(pokemonA, pokemonB, r) ==
    IF 2 * r < RDenom
    THEN [winner |-> pokemonA, loser |-> pokemonB]
    ELSE [winner |-> pokemonB, loser |-> pokemonA]
\* pickWinnerWeighted with Math.random() = r / RDenom.  With both levels 0
\* the probability is NaN and the comparison is false.
\* (variant returning the same record twice)
pickWinnerWeightedMutant(pokemonA, pokemonB, r) == [winner |-> pokemonA, loser |-> pokemonA]
pickWinnerWeighted(pokemonA, pokemonB, r) ==
    LET totalLevel == pokemonA.nivel + pokemonB.nivel
    IN IF totalLevel # 0 /\ r * totalLevel < pokemonA.nivel * RDenom
       THEN [winner |-> pokemonA, loser |-> pokemonB]
       ELSE [winner |-> pokemonB, loser |-> pokemonA]

\* const newWinnerLevel = winner.nivel + 1
\* (variant adding 2)
newWinnerLevelMutant(winner) == winner.nivel + 2
newWinnerLevel(winner) == winner.nivel + 1

\* const newLoserLevel = loser.nivel - 1
newLoserLevel(loser) == loser.nivel - 1

\* if (newLoserLevel === 0) deleteById(loser.id) else updateNivel(loser.id, newLoserLevel)
\* (variant that always updates the level)
loserIsDeletedMutant(level) == FALSE
loserIsDeleted(level) == level = 0

\* if (!pokemonA || !pokemonB) throw new Error("Pokemon not found")
\* (variant testing pokemonA only)
notBothExistMutant(pokemonA, pokemonB) == pokemonA = NoPokemon
notBothExist(pokemonA, pokemonB) == pokemonA = NoPokemon \/ pokemonB = NoPokemon

\* if (pokemonAId === pokemonBId) throw new Error("Cannot battle the same pokemon")
\* (variant without the test)
samePokemonMutant(pokemonAId, pokemonBId) == FALSE
samePokemon(pokemonAId, pokemonBId) == pokemonAId = pokemonBId

\* (variant returning the records as loaded)
BattleOutputStale(l) == ok(l.winner, l.loser)
\* return { vencedor: { ...winner, nivel: newWinnerLevel },
\*          perdedor: { ...loser, nivel: newLoserLevel } }
BattleOutput(l) ==
    ok([l.winner EXCEPT !.nivel = l.newWinnerLevel], [l.loser EXCEPT !.nivel = l.newLoserLevel])

Select(id) == Stmt("select", id, 0, "none", "none")
UpdateNivelStmt(id, nivel) == Stmt("updateNivel", id, nivel, "none", "none")
DeleteStmt(id) == Stmt("delete", id, 0, "none", "none")

\* the first synchronous part of the decorated controller's perform, up to
\* its first await
PerformStart(p, l, lg, k) ==
    LET r == req[p]
    IN IF r.op = "battle"
       THEN RepoCall(p, "loadA", Select(r.a), Call("loadById", r.b, 0), l,
                     Append(lg, Call("loadById", r.a, 0)), k)
       ELSE IF r.op = "create"
       THEN RepoCall(p, "insert", Stmt("insert", 0, 0, r.tipo, r.treinador),
                     Call("create", 0, 0), l, lg, k)
       ELSE RepoCall(p, "load", Select(r.a), Call("loadById", r.a, 0), l, lg, k)

----------------------------------------------------------------------------
(* The requests *)

Init ==
    /\ pool = TRUE
    /\ client = NoClient
    /\ transactionDb = NoTxDb
    /\ checkedOut = [c \in Clients |-> FALSE]
    /\ stored = [i \in Ids |-> IF i <= NumInit
                               THEN Row("pikachu", "Ash", 1 + (i % 2), 0)
                               ELSE Absent(0)]
    /\ txState = [c \in Clients |-> "none"]
    /\ pending = [c \in Clients |-> NoWrites]
    /\ nextId = NumInit + 1
    /\ pc = [p \in Procs |-> "new"]
    /\ req = [p \in Procs |-> NoRequest]
    /\ stmt = [p \in Procs |-> NoStmt]
    /\ loc = [p \in Procs |-> NoLocals]
    /\ log = [p \in Procs |-> <<>>]
    /\ out = [p \in Procs |-> NoResponse]
    /\ faults = 0

\* requests arrive in the order of their numbers
Arrives(p) == pc[p] = "new" /\ \A q \in Procs : q < p => pc[q] # "new"

\* DbTransactionController.perform up to the first await of openTransaction:
\* if (!this.pool) throw new ConnectionNotFoundError(); await this.pool.connect()
Receive(p, r) ==
    /\ Arrives(p)
    /\ req' = [req EXCEPT ![p] = r]
    /\ UNCHANGED <<pool, stored, txState, pending, nextId, faults>>
    /\ LET lg == <<Call("openTransaction", 0, 0)>>
       IN IF ~pool
          THEN Finish(p, Thrown("ConnectionNotFoundError"), NoLocals, lg, Conn)
          ELSE Issue(p, "connect", NoStmt, NoTxDb, NoLocals, lg, Conn)

\* POST /batalhar/:pokemonAId/:pokemonBId
Battle(p) ==
    \E ab \in BattleInputs :
        Receive(p, [NoRequest EXCEPT !.op = "battle", !.a = ab[1], !.b = ab[2]])

\* POST /pokemons
CreatePokemon(p) ==
    \E tipo \in CreateTipos, treinador \in Treinadores :
        Receive(p, [NoRequest EXCEPT !.op = "create", !.tipo = tipo, !.treinador = treinador])

\* DELETE /pokemons/:id
DeletePokemon(p) ==
    \E id \in OtherIds : Receive(p, [NoRequest EXCEPT !.op = "delete", !.a = id])

\* PUT /pokemons/:id
UpdatePokemonTreinador(p) ==
    \E id \in OtherIds, treinador \in Treinadores :
        Receive(p, [NoRequest EXCEPT !.op = "updateTreinador", !.a = id, !.treinador = treinador])

\* repository.updateNivel(id, nivel) called directly, outside any controller
UpdateNivel(p) ==
    \E id \in OtherIds, nivel \in DirectLevels :
        /\ Arrives(p)
        /\ req' = [req EXCEPT ![p] = [NoRequest EXCEPT !.op = "updateNivel", !.a = id, !.n = nivel]]
        /\ UNCHANGED <<pool, stored, txState, pending, nextId, faults>>
        /\ RepoCall(p, "mutate", UpdateNivelStmt(id, nivel), Call("updateNivel", id, nivel),
                    NoLocals, <<>>, Conn)

\* openTransaction: this.client = await this.pool.connect(); await this.client.query("BEGIN")
PoolConnect(p) ==
    /\ pc[p] = "connect"
    /\ \E c \in IdleClients :
          Issue(p, "begin", Stmt("BEGIN", 0, 0, "none", "none"), c,
                [loc[p] EXCEPT !.ownClient = c], log[p],
                [Conn EXCEPT !.client = c, !.checkedOut[c] = TRUE])
    /\ UNCHANGED <<pool, req, stored, txState, pending, nextId, faults>>

\* openTransaction: BEGIN has run; this.transactionDb = drizzle(this.client);
\* then try { await this.decoratee.perform(request) ...
Begin(p) ==
    /\ pc[p] = "begin"
    /\ \E res \in Exec(p) :
          /\ SetDb(res)
          /\ IF res.err # ""
             THEN Finish(p, Thrown(res.err), loc[p], log[p], Conn)
             ELSE PerformStart(p, loc[p], log[p],
                               [Conn EXCEPT !.transactionDb = drizzle(client)])
    /\ UNCHANGED <<pool, req>>

\* the first loadById of Promise.all has run
BattleLoadA(p) ==
    /\ pc[p] = "loadA"
    /\ \E res \in Exec(p) :
          /\ SetDb(res)
          /\ IF res.err # ""
             THEN UseCaseThrew(p, res.err, loc[p], log[p], Conn)
             ELSE Issue(p, "loadB", Select(req[p].b), stmt[p].h,
                        [loc[p] EXCEPT !.pokemonA = res.val, !.resolved = @ + 1], log[p], Conn)
    /\ UNCHANGED <<pool, req>>

\* the second loadById has run: validation, winner selection, winner update
BattleLoadB(p) ==
    /\ pc[p] = "loadB"
    /\ \E res \in Exec(p) :
          /\ SetDb(res)
          /\ LET l == [loc[p] EXCEPT !.pokemonB = res.val, !.loaded = TRUE, !.resolved = @ + 1]
             IN IF res.err # "" THEN UseCaseThrew(p, res.err, loc[p], log[p], Conn)
                ELSE IF notBothExist(l.pokemonA, l.pokemonB)
                THEN UseCaseThrew(p, "Pokemon not found", l, log[p], Conn)
                ELSE IF samePokemon(req[p].a, req[p].b)
                THEN UseCaseThrew(p, "Cannot battle the same pokemon", l, log[p], Conn)
                ELSE \E r \in RandomValues :
                        LET pick == pickWinnerWeighted(l.pokemonA, l.pokemonB, r)
                            l2 == [l EXCEPT !.winner = pick.winner, !.loser = pick.loser,
                                            !.newWinnerLevel = newWinnerLevel(pick.winner),
                                            !.newLoserLevel = newLoserLevel(pick.loser)]
                        IN RepoCall(p, "updateWinner",
                                    UpdateNivelStmt(l2.winner.id, l2.newWinnerLevel),
                                    Call("updateNivel", l2.winner.id, l2.newWinnerLevel), l2,
                                    Append(log[p], Call("pickWinnerWeighted", 0, 0)), Conn)
    /\ UNCHANGED <<pool, req>>

\* the winner update has run: delete or update the loser
BattleUpdateWinner(p) ==
    /\ pc[p] = "updateWinner"
    /\ \E res \in Exec(p) :
          /\ SetDb(res)
          /\ LET l == [loc[p] EXCEPT !.resolved = @ + 1]
             IN IF res.err # "" THEN UseCaseThrew(p, res.err, loc[p], log[p], Conn)
                ELSE IF loserIsDeleted(l.newLoserLevel)
                THEN RepoCall(p, "loser", DeleteStmt(l.loser.id),
                              Call("deleteById", l.loser.id, 0), l, log[p], Conn)
                ELSE RepoCall(p, "loser", UpdateNivelStmt(l.loser.id, l.newLoserLevel),
                              Call("updateNivel", l.loser.id, l.newLoserLevel), l, log[p], Conn)
    /\ UNCHANGED <<pool, req>>

\* the loser step has run: return { vencedor, perdedor }
BattleLoser(p) ==
    /\ pc[p] = "loser"
    /\ \E res \in Exec(p) :
          /\ SetDb(res)
          /\ LET l == [loc[p] EXCEPT !.resolved = @ + 1]
             IN IF res.err # "" THEN UseCaseThrew(p, res.err, loc[p], log[p], Conn)
                ELSE DecorateeReturned(p, BattleOutput(l), l, log[p], Conn)
    /\ UNCHANGED <<pool, req>>

\* setupCreatePokemon: the insert has run
CreateInsert(p) ==
    /\ pc[p] = "insert"
    /\ \E res \in Exec(p) :
          /\ SetDb(res)
          /\ IF res.err # "" THEN UseCaseThrew(p, res.err, loc[p], log[p], Conn)
             ELSE DecorateeReturned(p, created(res.val), [loc[p] EXCEPT !.resolved = @ + 1],
                                    log[p], Conn)
    /\ UNCHANGED <<pool, req>>

\* setupDeletePokemon / setupUpdatePokemonTreinador: loadById has run
LoadExisting(p) ==
    /\ pc[p] = "load"
    /\ \E res \in Exec(p) :
          /\ SetDb(res)
          /\ LET l == [loc[p] EXCEPT !.pokemonA = res.val, !.resolved = @ + 1]
                 r == req[p]
             IN IF res.err # "" THEN UseCaseThrew(p, res.err, loc[p], log[p], Conn)
                ELSE IF res.val = NoPokemon
                THEN UseCaseThrew(p, "Pokemon not found", l, log[p], Conn)
                ELSE IF r.op = "delete"
                THEN RepoCall(p, "mutate", DeleteStmt(r.a), Call("deleteById", r.a, 0),
                              l, log[p], Conn)
                ELSE RepoCall(p, "mutate", Stmt("updateTreinador", r.a, 0, "none", r.treinador),
                              Call("updateTreinador", r.a, 0), l, log[p], Conn)
    /\ UNCHANGED <<pool, req>>

\* deleteById / updateTreinador / the direct updateNivel has run
Mutate(p) ==
    /\ pc[p] = "mutate"
    /\ \E res \in Exec(p) :
          /\ SetDb(res)
          /\ IF res.err # "" THEN UseCaseThrew(p, res.err, loc[p], log[p], Conn)
             ELSE DecorateeReturned(p, noContent, [loc[p] EXCEPT !.resolved = @ + 1],
                                    log[p], Conn)
    /\ UNCHANGED <<pool, req>>

\* (variant that returns the response whether or not COMMIT failed)
CommitIgnoringError(p) ==
    /\ pc[p] = "commit"
    /\ \E res \in Exec(p) :
          /\ SetDb(res)
          /\ Finally(p, loc[p].response, loc[p], log[p], Conn)
    /\ UNCHANGED <<pool, req>>
\* COMMIT has run: return response; finally closeTransaction
Commit(p) ==
    /\ pc[p] = "commit"
    /\ \E res \in Exec(p) :
          /\ SetDb(res)
          /\ IF res.err # "" THEN Catch(p, res.err, loc[p], log[p], Conn)
             ELSE Finally(p, loc[p].response, loc[p], log[p], Conn)
    /\ UNCHANGED <<pool, req>>

\* ROLLBACK has run: throw error; finally closeTransaction
Rollback(p) ==
    /\ pc[p] = "rollback"
    /\ \E res \in Exec(p) :
          /\ SetDb(res)
          /\ Finally(p, Thrown(IF res.err # "" THEN res.err ELSE loc[p].error),
                     loc[p], log[p], Conn)
    /\ UNCHANGED <<pool, req>>

Next ==
    \E p \in Procs :
        \/ Battle(p)
        \/ CreatePokemon(p)
        \/ DeletePokemon(p)
        \/ UpdatePokemonTreinador(p)
        \/ UpdateNivel(p)
        \/ PoolConnect(p)
        \/ Begin(p)
        \/ BattleLoadA(p)
        \/ BattleLoadB(p)
        \/ BattleUpdateWinner(p)
        \/ BattleLoser(p)
        \/ CreateInsert(p)
        \/ LoadExisting(p)
        \/ Mutate(p)
        \/ Commit(p)
        \/ Rollback(p)

Spec == Init /\ [][Next]_vars

----------------------------------------------------------------------------
(* pickWinnerWeighted on its own: request 1 holds two pokemons of any      *)
(* levels and calls the function once                                      *)

PickLevels == 0 .. MaxLevel

PickInit ==
    /\ pool = TRUE
    /\ client = NoClient
    /\ transactionDb = NoTxDb
    /\ checkedOut = [c \in Clients |-> FALSE]
    /\ stored = [i \in Ids |-> Absent(0)]
    /\ txState = [c \in Clients |-> "none"]
    /\ pending = [c \in Clients |-> NoWrites]
    /\ nextId = NumInit + 1
    /\ pc = [p \in Procs |-> IF p = 1 THEN "pick" ELSE "new"]
    /\ req = [p \in Procs |-> NoRequest]
    /\ stmt = [p \in Procs |-> NoStmt]
    /\ \E a \in PickLevels, b \in PickLevels :
          loc = [p \in Procs |->
                    IF p = 1
                    THEN [NoLocals EXCEPT
                            !.pokemonA = PokemonModel(1, Row("pikachu", "Ash", a, 0)),
                            !.pokemonB = PokemonModel(2, Row("charizard", "Gary", b, 0))]
                    ELSE NoLocals]
    /\ log = [p \in Procs |-> <<>>]
    /\ out = [p \in Procs |-> NoResponse]
    /\ faults = 0

\* const randomValue = Math.random(); return { winner, loser }
PickWinner ==
    /\ pc[1] = "pick"
    /\ \E r \in RandomValues :
          LET pick == pickWinnerWeighted(loc[1].pokemonA, loc[1].pokemonB, r)
          IN loc' = [loc EXCEPT ![1].randomValue = r, ![1].winner = pick.winner,
                                ![1].loser = pick.loser]
    /\ pc' = [pc EXCEPT ![1] = "picked"]
    /\ log' = [log EXCEPT ![1] = Append(@, Call("pickWinnerWeighted", 0, 0))]
    /\ UNCHANGED <<pool, client, transactionDb, checkedOut, stored, txState, pending,
                   nextId, req, stmt, out, faults>>

PickNext == PickWinner

PickSpec == PickInit /\ [][PickNext]_vars

----------------------------------------------------------------------------
(* PgConnection on its own: one caller invokes the methods of the manager  *)
(* in any order, one call at a time, starting before connect()             *)

\* the methods the caller invokes
ConnMethods ==
    {"connect", "disconnect", "openTransaction", "closeTransaction", "commit", "rollback",
     "getDb"}

\* the call resolved / returned normally
Resolved == [NoResponse EXCEPT !.st = "resolved"]

ConnInit ==
    /\ pool = FALSE
    /\ client = NoClient
    /\ transactionDb = NoTxDb
    /\ checkedOut = [c \in Clients |-> FALSE]
    /\ stored = [i \in Ids |-> IF i <= NumInit
                               THEN Row("pikachu", "Ash", 1 + (i % 2), 0)
                               ELSE Absent(0)]
    /\ txState = [c \in Clients |-> "none"]
    /\ pending = [c \in Clients |-> NoWrites]
    /\ nextId = NumInit + 1
    /\ pc = [p \in Procs |-> "new"]
    /\ req = [p \in Procs |-> NoRequest]
    /\ stmt = [p \in Procs |-> NoStmt]
    /\ loc = [p \in Procs |-> NoLocals]
    /\ log = [p \in Procs |-> <<>>]
    /\ out = [p \in Procs |-> NoResponse]
    /\ faults = 0

\* caller p has invoked method f and received outcome; h is the handle that
\* getDb returned
Called(p, f, outcome, h) ==
    /\ req' = [req EXCEPT ![p] = [NoRequest EXCEPT !.op = f]]
    /\ out' = [out EXCEPT ![p] = outcome]
    /\ pc' = [pc EXCEPT ![p] = "done"]
    /\ stmt' = [stmt EXCEPT ![p].h = h]
    /\ UNCHANGED <<loc, log, faults>>

\* connect(): this.pool = new Pool(...); this.db = drizzle(this.pool)
ConnConnect(p) ==
    /\ pool' = TRUE
    /\ UNCHANGED <<client, transactionDb, checkedOut, stored, txState, pending, nextId>>
    /\ Called(p, "connect", Resolved, NoTxDb)

\* disconnect(): if (this.pool) { end; this.pool = this.db = undefined }
\* this.closeTransaction()
ConnDisconnect(p) ==
    /\ pool' = FALSE
    /\ client' = closeTransaction(Conn).client
    /\ transactionDb' = closeTransaction(Conn).transactionDb
    /\ checkedOut' = closeTransaction(Conn).checkedOut
    /\ UNCHANGED <<stored, txState, pending, nextId>>
    /\ Called(p, "disconnect", Resolved, NoTxDb)

\* openTransaction(): throws ConnectionNotFoundError without a pool; else
\* checks a client out, sends BEGIN and sets transactionDb
ConnOpenTransaction(p) ==
    IF ~pool
    THEN /\ UNCHANGED <<pool, client, transactionDb, checkedOut, stored, txState, pending,
                        nextId>>
         /\ Called(p, "openTransaction", Thrown("ConnectionNotFoundError"), NoTxDb)
    ELSE \E c \in IdleClients :
            /\ client' = c
            /\ checkedOut' = [checkedOut EXCEPT ![c] = TRUE]
            /\ transactionDb' = drizzle(c)
            /\ txState' = SqlBegin(Db, c).db.txState
            /\ UNCHANGED <<pool, stored, pending, nextId>>
            /\ Called(p, "openTransaction", Resolved, NoTxDb)

\* closeTransaction()
ConnCloseTransaction(p) ==
    /\ client' = closeTransaction(Conn).client
    /\ transactionDb' = closeTransaction(Conn).transactionDb
    /\ checkedOut' = closeTransaction(Conn).checkedOut
    /\ UNCHANGED <<pool, stored, txState, pending, nextId>>
    /\ Called(p, "closeTransaction", Resolved, NoTxDb)

\* commit(): throws TransactionNotFoundError without a client; else COMMIT
ConnCommit(p) ==
    IF client = NoClient
    THEN /\ UNCHANGED <<pool, client, transactionDb, checkedOut, stored, txState, pending,
                        nextId>>
         /\ Called(p, "commit", Thrown("TransactionNotFoundError"), NoTxDb)
    ELSE /\ stored' = SqlCommit(Db, client).db.stored
         /\ txState' = SqlCommit(Db, client).db.txState
         /\ pending' = SqlCommit(Db, client).db.pending
         /\ UNCHANGED <<pool, client, transactionDb, checkedOut, nextId>>
         /\ Called(p, "commit", Resolved, NoTxDb)

\* (variant that resolves without a client)
ConnRollbackLenient(p) ==
    /\ IF client = NoClient
       THEN UNCHANGED <<stored, txState, pending>>
       ELSE /\ stored' = SqlRollback(Db, client).db.stored
            /\ txState' = SqlRollback(Db, client).db.txState
            /\ pending' = SqlRollback(Db, client).db.pending
    /\ UNCHANGED <<pool, client, transactionDb, checkedOut, nextId>>
    /\ Called(p, "rollback", Resolved, NoTxDb)
\* rollback(): throws TransactionNotFoundError without a client; else ROLLBACK
ConnRollback(p) ==
    IF client = NoClient
    THEN /\ UNCHANGED <<pool, client, transactionDb, checkedOut, stored, txState, pending,
                        nextId>>
         /\ Called(p, "rollback", Thrown("TransactionNotFoundError"), NoTxDb)
    ELSE /\ stored' = SqlRollback(Db, client).db.stored
         /\ txState' = SqlRollback(Db, client).db.txState
         /\ pending' = SqlRollback(Db, client).db.pending
         /\ UNCHANGED <<pool, client, transactionDb, checkedOut, nextId>>
         /\ Called(p, "rollback", Resolved, NoTxDb)

\* getDb(): throws ConnectionNotFoundError without transactionDb and db; else
\* returns the handle, kept by the caller
ConnGetDb(p) ==
    /\ UNCHANGED <<pool, client, transactionDb, checkedOut, stored, txState, pending, nextId>>
    /\ IF getDbThrows(Conn)
       THEN Called(p, "getDb", Thrown("ConnectionNotFoundError"), NoTxDb)
       ELSE Called(p, "getDb", Resolved, getDb(Conn))

ConnNext ==
    \E p \in {1} :
        \/ ConnConnect(p)
        \/ ConnDisconnect(p)
        \/ ConnOpenTransaction(p)
        \/ ConnCloseTransaction(p)
        \/ ConnCommit(p)
        \/ ConnRollback(p)
        \/ ConnGetDb(p)

ConnSpec == ConnInit /\ [][ConnNext]_vars

----------------------------------------------------------------------------
TypeOK ==
    /\ client \in Clients \cup {NoClient}
    /\ transactionDb \in Clients \cup {InvalidDb, NoTxDb}
    /\ \A i \in Ids : stored[i].exists => stored[i].tipo \in Tipos
    /\ \A c \in Clients : txState[c] \in {"none", "open", "aborted", "broken"}
    /\ nextId \in 1 .. (NumInit + Cardinality(Procs) + 1)
    /\ faults \in 0 .. MaxFaults

----------------------------------------------------------------------------
(* Vocabulary of the properties *)

CallsTo(p, f) == {i \in 1 .. Len(log[p]) : log[p][i].f = f}
HasCall(p, c) == \E i \in 1 .. Len(log[p]) : log[p][i] = c
MutationCalls(p) == CallsTo(p, "updateNivel") \cup CallsTo(p, "deleteById")
BattleDone(p) == pc[p] = "done" /\ req[p].op = "battle"

\* the battle request of p was answered with { vencedor, perdedor }
Succeeded(p) == BattleDone(p) /\ out[p].st = "ok"

\* the battle of p selected a winner
Picked(p) == CallsTo(p, "pickWinnerWeighted") # {}

\* the battle of p issued its loser step (so its winner update succeeded)
LoserStepIssued(p) ==
    \/ CallsTo(p, "deleteById") # {}
    \/ Cardinality(CallsTo(p, "updateNivel")) = 2

\* the loser step of the battle of p failed: the use case ended in it
LoserStepFailed(p) ==
    BattleDone(p) /\ LoserStepIssued(p) /\ loc[p].caught # ""

\* no other request has been received since the start
Alone(p) == \A q \in Procs \ {p} : req[q].op = "none"

\* request q names pokemon id
Touches(q, id) == req[q].op # "none" /\ id \in {req[q].a, req[q].b}

----------------------------------------------------------------------------
\* C1: if the loser step of a battle fails after its winner update succeeded,
\* then once the request has ended no row of the table carries a write of that
\* battle: the winner's stored level is the pre-battle one.
C1_Atomicity ==
    \A p \in Procs :
        LoserStepFailed(p) => \A i \in Ids : stored[i].by # p

\* the case of C1 run alone: the loser step failed and the winner update is gone
C1_Witness ==
    \E p \in Procs :
        /\ LoserStepFailed(p) /\ Alone(p)
        /\ stored[loc[p].winner.id].nivel = loc[p].winner.nivel

----------------------------------------------------------------------------
\* C2: in every battle that succeeds, the level computed for the winner, passed
\* to updateNivel and returned is its loaded level + 1, and the level computed
\* and returned for the loser is its loaded level - 1, whichever of A or B
\* wins; a battle that ran alone leaves the winner stored with that level.
C2_LevelDelta ==
    \A p \in Procs :
        Succeeded(p) =>
            LET l == loc[p]
            IN /\ l.newWinnerLevel = l.winner.nivel + 1
               /\ l.newLoserLevel = l.loser.nivel - 1
               /\ HasCall(p, Call("updateNivel", l.winner.id, l.winner.nivel + 1))
               /\ \A i \in CallsTo(p, "updateNivel") :
                     \/ log[p][i] = Call("updateNivel", l.winner.id, l.winner.nivel + 1)
                     \/ log[p][i] = Call("updateNivel", l.loser.id, l.loser.nivel - 1)
               /\ out[p].vencedor = [l.winner EXCEPT !.nivel = l.winner.nivel + 1]
               /\ out[p].perdedor = [l.loser EXCEPT !.nivel = l.loser.nivel - 1]
               /\ Alone(p) => stored[l.winner.id].nivel = l.winner.nivel + 1

\* a battle that B won succeeded, alone, with the loser's level updated
C2_Witness ==
    \E p \in Procs :
        /\ Succeeded(p) /\ Alone(p)
        /\ loc[p].winner.id = req[p].b
        /\ HasCall(p, Call("updateNivel", req[p].a, loc[p].pokemonA.nivel - 1))

\* C3: in a successful battle whose loser's new level is 0 the loser is removed
\* with deleteById, no updateNivel is issued for it and the row is gone from
\* storage (a later loadById finds nothing); with a nonzero new level the loser
\* is not deleted, updateNivel is issued with the new level and, unless another
\* request names that pokemon, the row is stored with the new level.
C3_DeletionThreshold ==
    \A p \in Procs :
        Succeeded(p) =>
            LET l == loc[p]
            IN IF l.newLoserLevel = 0
               THEN /\ HasCall(p, Call("deleteById", l.loser.id, 0))
                    /\ \A i \in CallsTo(p, "updateNivel") : log[p][i].id # l.loser.id
                    /\ ~stored[l.loser.id].exists
               ELSE /\ CallsTo(p, "deleteById") = {}
                    /\ HasCall(p, Call("updateNivel", l.loser.id, l.newLoserLevel))
                    /\ (\A q \in Procs \ {p} : ~Touches(q, l.loser.id)) =>
                          /\ stored[l.loser.id].exists
                          /\ stored[l.loser.id].nivel = l.newLoserLevel

\* the case of C3 run alone: the loser reached level 0 and its row is gone
C3_Witness ==
    \E p \in Procs :
        /\ Succeeded(p) /\ Alone(p)
        /\ loc[p].newLoserLevel = 0
        /\ ~stored[loc[p].loser.id].exists

\* C4: a battle with idA = idB whose two loads returned always fails with
\* "Cannot battle the same pokemon", whether or not the id resolves, and
\* issues no updateNivel or deleteById call.
C4_SameIdRejected ==
    \A p \in Procs :
        (BattleDone(p) /\ loc[p].loaded /\ req[p].a = req[p].b) =>
            /\ loc[p].caught = "Cannot battle the same pokemon"
            /\ MutationCalls(p) = {}

\* the case of C4 with an id that resolves
C4_Witness ==
    \E p \in Procs :
        /\ BattleDone(p) /\ req[p].a = req[p].b
        /\ loc[p].pokemonA # NoPokemon
        /\ out[p] = badRequest("Cannot battle the same pokemon")

\* C5: a battle of which a load returned no pokemon fails with "Pokemon not
\* found", selects no winner and issues no updateNivel or deleteById call;
\* the request is answered with not found unless commit fails.
C5_MissingCombatant ==
    \A p \in Procs :
        (req[p].op = "battle" /\ loc[p].loaded
            /\ (loc[p].pokemonA = NoPokemon \/ loc[p].pokemonB = NoPokemon)) =>
            /\ loc[p].caught = "Pokemon not found"
            /\ ~Picked(p)
            /\ MutationCalls(p) = {}
            /\ pc[p] = "done" =>
                  /\ out[p].st \in {"notFound", "throw"}
                  /\ out[p].st = "notFound" => out[p] = notFound("Pokemon not found")

\* A resolves, B does not, and the request is answered with not found
C5_Witness ==
    \E p \in Procs :
        /\ BattleDone(p) /\ loc[p].loaded
        /\ loc[p].pokemonA # NoPokemon /\ loc[p].pokemonB = NoPokemon
        /\ out[p] = notFound("Pokemon not found")

----------------------------------------------------------------------------
\* the calls of request p to f all come after its calls to g
After(p, f, g) == \A i \in CallsTo(p, f), j \in CallsTo(p, g) : j < i

UseCaseCalls(p) ==
    {i \in 1 .. Len(log[p]) :
        log[p][i].f \in {"loadById", "create", "pickWinnerWeighted", "updateNivel",
                         "updateTreinador", "deleteById"}}

\* C6: for every request through the transactional wrapper, openTransaction
\* is the first call, before any call of the wrapped operation; commit and
\* rollback are called only once the operation has ended; if the operation
\* returned, commit is called once, and rollback is called only after a commit
\* that threw; if the operation threw, rollback is called once and commit is
\* not; once the operation has started, the request ends with exactly one
\* closeTransaction, as its last call.
C6_UnitOfWork ==
    \A p \in Procs :
        Wrapped(req[p].op) =>
            LET per == loc[p].performed
                ends == CallsTo(p, "commit") \cup CallsTo(p, "rollback")
                                             \cup CallsTo(p, "closeTransaction")
            IN /\ CallsTo(p, "openTransaction") = {1}
               /\ \A i \in UseCaseCalls(p), j \in ends : i < j
               /\ ends # {} => per # ""
               /\ pc[p] = "done" =>
                     /\ per = "" => Len(log[p]) = 1
                     /\ per = "returned" =>
                           /\ Cardinality(CallsTo(p, "commit")) = 1
                           /\ out[p].st # "throw" => CallsTo(p, "rollback") = {}
                           /\ out[p].st = "throw" =>
                                 /\ Cardinality(CallsTo(p, "rollback")) = 1
                                 /\ After(p, "rollback", "commit")
                     /\ per = "threw" =>
                           /\ CallsTo(p, "commit") = {}
                           /\ Cardinality(CallsTo(p, "rollback")) = 1
                     /\ per # "" => CallsTo(p, "closeTransaction") = {Len(log[p])}

\* the operation returned, commit threw, and rollback and closeTransaction followed
C6_Witness ==
    \E p \in Procs :
        /\ pc[p] = "done" /\ Wrapped(req[p].op)
        /\ loc[p].performed = "returned"
        /\ CallsTo(p, "commit") # {} /\ CallsTo(p, "rollback") # {}
        /\ log[p][Len(log[p])].f = "closeTransaction"

\* C7: every failing battle request whose transaction was opened (not found,
\* equal ids, or an infrastructure failure) ends with rollback, never with
\* commit, and then closeTransaction.
C7_FailureRollsBack ==
    \A p \in Procs :
        (BattleDone(p) /\ out[p].st # "ok" /\ loc[p].performed # "") =>
            /\ CallsTo(p, "commit") = {}
            /\ CallsTo(p, "rollback") # {}
            /\ CallsTo(p, "closeTransaction") = {Len(log[p])}
            /\ After(p, "closeTransaction", "rollback")

\* a battle that failed on an infrastructure error was rolled back and released
C7_Witness ==
    \E p \in Procs :
        /\ BattleDone(p) /\ loc[p].performed = "threw"
        /\ CallsTo(p, "commit") = {} /\ CallsTo(p, "rollback") # {}
        /\ log[p][Len(log[p])].f = "closeTransaction"

\* C8: in every reachable state every stored pokemon, committed or written by
\* a transaction still open, has nivel >= 0.
C8_LevelNonNegative ==
    /\ \A i \in Ids : stored[i].exists => stored[i].nivel >= 0
    /\ \A c \in Clients : \A i \in DOMAIN pending[c] :
          pending[c][i].exists => pending[c][i].nivel >= 0

\* a battle lost by a pokemon of level 0 issued updateNivel with -1
C8_Witness ==
    \E p \in Procs :
        /\ BattleDone(p)
        /\ loc[p].loser.nivel = 0
        /\ HasCall(p, Call("updateNivel", loc[p].loser.id, -1))
        /\ stored[loc[p].loser.id].exists

\* the pairs of the battles of p and q are disjoint pairs of stored pokemons
DisjointPairs(p, q) ==
    /\ req[p].op = "battle" /\ req[q].op = "battle"
    /\ req[p].a # req[p].b /\ req[q].a # req[q].b
    /\ {req[p].a, req[p].b} \cap {req[q].a, req[q].b} = {}
    /\ {req[p].a, req[p].b, req[q].a, req[q].b} \subseteq 1 .. NumInit

\* C9: two battle requests over disjoint pairs of stored pokemons, with no
\* infrastructure failure, each end as if run alone: answered with the winner
\* and the loser, the winner stored with its level + 1 and the loser stored
\* with its level - 1, or removed at level 0.
C9_DisjointIndependent ==
    \A p \in Procs : \A q \in Procs \ {p} :
        (DisjointPairs(p, q) /\ pc[p] = "done" /\ pc[q] = "done" /\ faults = 0) =>
            LET l == loc[p]
            IN /\ out[p].st = "ok"
               /\ stored[l.winner.id].exists
               /\ stored[l.winner.id].nivel = l.winner.nivel + 1
               /\ IF l.loser.nivel = 1
                  THEN ~stored[l.loser.id].exists
                  ELSE /\ stored[l.loser.id].exists
                       /\ stored[l.loser.id].nivel = l.loser.nivel - 1

\* two battles over disjoint pairs both ended as if run alone
C9_Witness ==
    \E p \in Procs : \E q \in Procs \ {p} :
        /\ DisjointPairs(p, q) /\ Succeeded(p) /\ Succeeded(q)
        /\ \A r \in {p, q} : stored[loc[r].winner.id].nivel = loc[r].winner.nivel + 1

\* C10: whenever a battle between idA and idB selects a winner, winner.id
\* differs from loser.id, {winner.id, loser.id} = {idA, idB}, and the winner
\* and the loser are the two loaded records, unmodified.
C10_WinnerLoserDisjoint ==
    \A p \in Procs :
        Picked(p) =>
            LET l == loc[p]
            IN /\ l.winner.id # l.loser.id
               /\ {l.winner.id, l.loser.id} = {req[p].a, req[p].b}
               /\ \/ l.winner = l.pokemonA /\ l.loser = l.pokemonB
                  \/ l.winner = l.pokemonB /\ l.loser = l.pokemonA

\* a battle selected B as the winner and A as the loser
C10_Witness ==
    \E p \in Procs :
        /\ Picked(p)
        /\ loc[p].winner = loc[p].pokemonB /\ loc[p].loser = loc[p].pokemonA
        /\ loc[p].pokemonA.nivel > loc[p].pokemonB.nivel

----------------------------------------------------------------------------
\* the draw r / RDenom is below the probability levelA / (levelA + levelB)
BelowProbability(r, levelA, levelB) == r * (levelA + levelB) < levelA * RDenom

\* C11: for levels with levelA + levelB > 0 and a draw r, A is the winner and
\* B the loser exactly when r < levelA / (levelA + levelB), otherwise B is
\* the winner and A the loser; with equal levels the threshold is 1/2 and
\* there is a draw for each outcome.
C11_WinnerRule ==
    LET l == loc[1]
        a == l.pokemonA.nivel
        b == l.pokemonB.nivel
    IN (a + b > 0) =>
          /\ pc[1] = "picked" =>
                IF BelowProbability(l.randomValue, a, b)
                THEN l.winner = l.pokemonA /\ l.loser = l.pokemonB
                ELSE l.winner = l.pokemonB /\ l.loser = l.pokemonA
          /\ (pc[1] = "pick" /\ a = b) =>
                /\ \A r \in RandomValues :
                      (pickWinnerWeighted(l.pokemonA, l.pokemonB, r).winner = l.pokemonA)
                          <=> (2 * r < RDenom)
                /\ \E r \in RandomValues :
                      pickWinnerWeighted(l.pokemonA, l.pokemonB, r).winner = l.pokemonA
                /\ \E r \in RandomValues :
                      pickWinnerWeighted(l.pokemonA, l.pokemonB, r).winner = l.pokemonB

\* equal levels, a draw of 1/2 or more: B wins
C11_Witness ==
    /\ pc[1] = "picked"
    /\ loc[1].pokemonA.nivel = loc[1].pokemonB.nivel /\ loc[1].pokemonA.nivel > 0
    /\ 2 * loc[1].randomValue >= RDenom
    /\ loc[1].winner = loc[1].pokemonB

----------------------------------------------------------------------------
\* C12: a successful battle returns the winner with its loaded level + 1 and
\* the loser with its loaded level - 1, id, tipo and treinador of both as
\* loaded; the loser is reported with level 0 exactly when deleteById was
\* called for it.
C12_BattleOutput ==
    \A p \in Procs :
        Succeeded(p) =>
            LET l == loc[p]
                v == out[p].vencedor
                d == out[p].perdedor
                w == IF v.id = l.pokemonA.id THEN l.pokemonA ELSE l.pokemonB
                o == IF v.id = l.pokemonA.id THEN l.pokemonB ELSE l.pokemonA
            IN /\ v.id = w.id /\ v.tipo = w.tipo /\ v.treinador = w.treinador
               /\ v.nivel = w.nivel + 1
               /\ d.id = o.id /\ d.tipo = o.tipo /\ d.treinador = o.treinador
               /\ d.nivel = o.nivel - 1
               /\ HasCall(p, Call("deleteById", o.id, 0)) <=> d.nivel = 0

\* the loser was deleted and is returned with level 0
C12_Witness ==
    \E p \in Procs :
        /\ Succeeded(p)
        /\ HasCall(p, Call("deleteById", out[p].perdedor.id, 0))
        /\ out[p].perdedor.nivel = 0
        /\ out[p].perdedor.tipo = "pikachu"

----------------------------------------------------------------------------
\* C13: the battle controller classifies every failure of the use case: a
\* load that returned no pokemon yields not found, equal ids yield bad
\* request, the error "Pokemon not found" is returned as not found and
\* "Cannot battle the same pokemon" as bad request, and every other error is
\* neither converted nor swallowed: the controller throws it and the request
\* ends with a thrown error.
C13_FailureClassification ==
    \A p \in Procs :
        (req[p].op = "battle" /\ loc[p].performed # "") =>
            LET l == loc[p]
            IN /\ l.caught = "Pokemon not found" =>
                     l.performed = "returned" /\ l.response = notFound(l.caught)
               /\ l.caught = "Cannot battle the same pokemon" =>
                     l.performed = "returned" /\ l.response = badRequest(l.caught)
               /\ l.caught \notin {"", "Pokemon not found", "Cannot battle the same pokemon"} =>
                     /\ l.performed = "threw"
                     /\ l.response = NoResponse
                     /\ pc[p] = "done" => out[p].st = "throw"
               /\ l.caught = "" => l.performed = "returned" /\ l.response.st = "ok"
               /\ (l.loaded /\ (l.pokemonA = NoPokemon \/ l.pokemonB = NoPokemon)) =>
                     l.response.st = "notFound"
               /\ (l.loaded /\ req[p].a = req[p].b) =>
                     l.response.st = "badRequest"
               /\ (pc[p] = "done" /\ out[p].st # "throw") => out[p] = l.response

\* all three kinds: the use case failed on a query and the error was rethrown,
\* while another battle was answered with bad request
C13_Witness ==
    \E p \in Procs : \E q \in Procs \ {p} :
        /\ BattleDone(p) /\ loc[p].caught = "QueryError" /\ out[p] = Thrown("QueryError")
        /\ BattleDone(q) /\ out[q] = badRequest("Cannot battle the same pokemon")

----------------------------------------------------------------------------
\* the calls of the battle of p to f with id
CallsWith(p, f, id) == {i \in CallsTo(p, f) : log[p][i].id = id}

\* the use case of p ended with an error of a repository call
PersistenceFailed(p) ==
    loc[p].caught \notin {"", "Pokemon not found", "Cannot battle the same pokemon"}

\* C14: within one battle each combatant is loaded exactly once (two loads,
\* one per id given), the winner update is issued at most once and the loser
\* update or delete at most once; once a repository call has failed no
\* further repository call is made, and the request ends with a thrown error.
C14_NoRetries ==
    /\ [](\A p \in Procs :
            (req[p].op = "battle" /\ UseCaseCalls(p) # {}) =>
                LET l == loc[p]
                IN /\ Cardinality(CallsTo(p, "loadById")) = 2
                   /\ CallsWith(p, "loadById", req[p].a) # {}
                   /\ CallsWith(p, "loadById", req[p].b) # {}
                   /\ Cardinality(CallsTo(p, "pickWinnerWeighted")) <= 1
                   /\ Picked(p) =>
                         /\ Cardinality(CallsWith(p, "updateNivel", l.winner.id)) = 1
                         /\ Cardinality(CallsWith(p, "updateNivel", l.loser.id)
                                 \cup CallsWith(p, "deleteById", l.loser.id)) <= 1
                         /\ Cardinality(MutationCalls(p)) <= 2
                   /\ (PersistenceFailed(p) /\ pc[p] = "done") => out[p].st = "throw")
    /\ [][\A p \in Procs :
            (req[p].op = "battle" /\ PersistenceFailed(p)) =>
                UseCaseCalls(p)' = UseCaseCalls(p)]_vars

\* the winner update failed: no loser step was issued and the error was thrown
C14_Witness ==
    \E p \in Procs :
        /\ BattleDone(p) /\ PersistenceFailed(p)
        /\ Cardinality(CallsTo(p, "updateNivel")) = 1
        /\ CallsTo(p, "deleteById") = {}
        /\ out[p].st = "throw"

----------------------------------------------------------------------------
\* the calls of the battle of p that issue the loser step
LoserCalls(p) ==
    CallsWith(p, "deleteById", loc[p].loser.id)
        \cup {i \in CallsWith(p, "updateNivel", loc[p].loser.id) :
                log[p][i].v = loc[p].newLoserLevel}

\* C15: within one battle, winner selection comes after both loads have
\* returned; no updateNivel or deleteById is issued before both loads
\* returned a pokemon and the ids were found to differ, nor before winner
\* selection; the loser step is issued only after the winner update has
\* returned; and commit is issued only after the winner update and the loser
\* step have both returned, or with neither issued.
C15_Ordering ==
    \A p \in Procs :
        req[p].op = "battle" =>
            LET l == loc[p]
            IN /\ Picked(p) => l.loaded /\ l.resolved >= 2
               /\ \A i \in UseCaseCalls(p) : log[p][i].f # "loadById" => l.resolved >= 2
               /\ MutationCalls(p) # {} =>
                     /\ l.pokemonA # NoPokemon /\ l.pokemonB # NoPokemon
                     /\ req[p].a # req[p].b
                     /\ \A i \in MutationCalls(p), j \in CallsTo(p, "pickWinnerWeighted") : j < i
               /\ (Picked(p) /\ LoserCalls(p) # {}) =>
                     /\ l.resolved >= 3
                     /\ \A i \in LoserCalls(p), j \in CallsWith(p, "updateNivel", l.winner.id) :
                           j < i
               /\ CallsTo(p, "commit") # {} =>
                     /\ \A i \in CallsTo(p, "commit"), j \in UseCaseCalls(p) : j < i
                     /\ \/ MutationCalls(p) = {} /\ l.resolved = 2
                        \/ Cardinality(MutationCalls(p)) = 2 /\ l.resolved = 4

\* a battle committed after its winner update and its loser delete returned
C15_Witness ==
    \E p \in Procs :
        /\ req[p].op = "battle" /\ pc[p] = "commit"
        /\ loc[p].resolved = 4
        /\ CallsTo(p, "deleteById") # {}

----------------------------------------------------------------------------
CreateDone(p) == pc[p] = "done" /\ req[p].op = "create" /\ out[p].st = "created"

\* C16: every created pokemon is returned with nivel 1, tipo and treinador as
\* given, and the row inserted for it, committed or not, has nivel 1 until
\* another request writes its level; a create that ran alone leaves the row
\* stored with nivel 1.  The request carries no level.
C16_CreateLevelOne ==
    \A p \in Procs :
        req[p].op = "create" =>
            /\ req[p].n = 0
            /\ \A c \in Clients : \A i \in DOMAIN pending[c] :
                  (pending[c][i].exists /\ pending[c][i].by = p) => pending[c][i].nivel = 1
            /\ \A i \in Ids : (stored[i].exists /\ stored[i].by = p) => stored[i].nivel = 1
            /\ CreateDone(p) =>
                  LET m == out[p].vencedor
                  IN /\ m.nivel = 1
                     /\ m.tipo = req[p].tipo /\ m.treinador = req[p].treinador
                     /\ Alone(p) => stored[m.id] = Row(m.tipo, m.treinador, 1, p)

\* a pokemon was created alone and is stored with nivel 1
C16_Witness ==
    \E p \in Procs :
        /\ CreateDone(p) /\ Alone(p)
        /\ stored[out[p].vencedor.id].exists
        /\ stored[out[p].vencedor.id].nivel = 1

----------------------------------------------------------------------------
\* the ids that rows, committed or written by an open transaction, carry
UsedIds ==
    {i \in Ids : stored[i].exists}
        \cup {i \in Ids : \E c \in Clients : i \in DOMAIN pending[c] /\ pending[c][i].exists}

\* C17: a created pokemon never receives an id that was assigned before: the
\* ids assigned so far are those below the sequence value, which never
\* decreases; every row has an assigned id; a step gives rows no id other
\* than the next of the sequence; and the ids returned by creates are beyond
\* the ids of the pokemons stored before, deleted or not, and pairwise
\* different.
C17_IdStability ==
    /\ [](/\ \A i \in UsedIds : i < nextId
          /\ \A p \in Procs :
                CreateDone(p) =>
                    /\ out[p].vencedor.id > NumInit
                    /\ out[p].vencedor.id < nextId
                    /\ \A q \in Procs \ {p} :
                          CreateDone(q) => out[q].vencedor.id # out[p].vencedor.id)
    /\ [][/\ nextId' >= nextId
          /\ UsedIds' \subseteq UsedIds \cup {nextId}
          /\ nextId \in UsedIds' => nextId' = nextId + 1]_vars

\* a stored pokemon was deleted and a created pokemon is stored under a new id
C17_Witness ==
    \E p \in Procs : \E q \in Procs \ {p} :
        /\ CreateDone(p)
        /\ pc[q] = "done" /\ CallsTo(q, "deleteById") # {}
        /\ \E i \in 1 .. NumInit : ~stored[i].exists
        /\ stored[out[p].vencedor.id].exists

----------------------------------------------------------------------------
\* request p's pending statement of kind k has just returned successfully
Returned(p, k) == stmt[p].k = k /\ loc'[p].resolved = loc[p].resolved + 1

\* every row but that of id is the same, for every client, before and after
OthersUntouched(id) ==
    \A c \in Clients : \A i \in Ids \ {id} : Visible(Db', c)[i] = Visible(Db, c)[i]

\* C18: an explicit delete loads the pokemon before it deletes it: deleteById
\* is called at most once, for the requested id, after loadById has returned a
\* pokemon; if loadById returns none the request fails with "Pokemon not
\* found" and deleteById is never called; and the deleteById that returns has
\* removed the row of that id, as its connection sees it, and changed no
\* other row.
C18_DeleteExisting ==
    /\ [](\A p \in Procs :
            req[p].op = "delete" =>
                LET l == loc[p]
                IN /\ After(p, "deleteById", "loadById")
                   /\ Cardinality(CallsTo(p, "deleteById")) <= 1
                   /\ CallsTo(p, "deleteById") # {} =>
                         /\ l.resolved >= 1 /\ l.pokemonA # NoPokemon
                         /\ HasCall(p, Call("deleteById", req[p].a, 0))
                   /\ (l.resolved >= 1 /\ l.pokemonA = NoPokemon) =>
                         /\ l.caught = "Pokemon not found"
                         /\ CallsTo(p, "deleteById") = {}
                         /\ pc[p] = "done" => out[p].st \in {"notFound", "throw"})
    /\ [][\A p \in Procs :
            (req[p].op = "delete" /\ Returned(p, "delete")) =>
                /\ \E c \in RunsOn(stmt[p].h) : ~Visible(Db', c)[req[p].a].exists
                /\ OthersUntouched(req[p].a)]_vars

\* a delete of a stored pokemon was answered with no content and the row is gone
C18_Witness ==
    \E p \in Procs :
        /\ req[p].op = "delete" /\ pc[p] = "done" /\ out[p].st = "noContent"
        /\ loc[p].pokemonA # NoPokemon
        /\ HasCall(p, Call("deleteById", req[p].a, 0))
        /\ ~stored[req[p].a].exists /\ stored[req[p].a].by = p

----------------------------------------------------------------------------
\* the trainer update of p was answered with no content
TreinadorUpdated(p) ==
    pc[p] = "done" /\ req[p].op = "updateTreinador" /\ out[p].st = "noContent"

----------------------------------------------------------------------------
\* the number of the RDenom equally likely draws on which A wins against B
WinsOfA(pokemonA, pokemonB) ==
    Cardinality({r \in RandomValues :
                    pickWinnerWeighted(pokemonA, pokemonB, r).winner = pokemonA})

----------------------------------------------------------------------------
\* the level the battle of p computed for pokemon id from its own loads
ComputedLevel(p, id) ==
    IF id = loc[p].winner.id THEN loc[p].newWinnerLevel ELSE loc[p].newLoserLevel

\* both battles were answered with a result, both loaded pokemon id at the
\* same level and both selected it as winner
BothWonWith(id) ==
    \A p \in Procs :
        /\ Succeeded(p) /\ loc[p].winner.id = id
        /\ loc[p].winner.nivel = loc[1].winner.nivel

\* C21: a level written by a battle is the absolute level that battle computed
\* from its own load, whatever another battle has written to the same row in
\* between: a row last written by battle p carries the level p computed, so
\* the level of a pokemon shared by two concurrent battles reflects one battle
\* only.  The witness is the lost update: two battles that both win with the
\* shared pokemon leave it one level up, which no serial run of the two does.
C21_LostUpdate ==
    \A p \in Procs :
        (req[p].op = "battle" /\ Picked(p)) =>
            /\ \A i \in Ids :
                  (stored[i].by = p /\ stored[i].exists) =>
                      /\ i \in {loc[p].winner.id, loc[p].loser.id}
                      /\ stored[i].nivel = ComputedLevel(p, i)
            /\ \A c \in Clients : \A i \in DOMAIN pending[c] :
                  (pending[c][i].by = p /\ pending[c][i].exists) =>
                      /\ i \in {loc[p].winner.id, loc[p].loser.id}
                      /\ pending[c][i].nivel = ComputedLevel(p, i)

\* both battles won with the shared pokemon, loaded at the same level, and it
\* is stored one level up, not two
C21_Witness ==
    \E id \in Ids :
        /\ BothWonWith(id)
        /\ faults = 0
        /\ stored[id].exists
        /\ stored[id].nivel = loc[1].winner.nivel + 1

----------------------------------------------------------------------------
\* no request is a direct repository.updateNivel call
NoDirectUpdate == \A q \in Procs : req[q].op # "updateNivel"

\* C22: as long as no level is updated directly, every row of the table,
\* committed or written in a transaction, has level >= 1, every pokemon a
\* request has loaded has level >= 1, and pickWinnerWeighted is never called
\* with levelA + levelB = 0.
C22_LevelZeroNeverLoaded ==
    NoDirectUpdate =>
        /\ \A i \in Ids : stored[i].exists => stored[i].nivel >= 1
        /\ \A c \in Clients : \A i \in DOMAIN pending[c] :
              pending[c][i].exists => pending[c][i].nivel >= 1
        /\ \A p \in Procs :
              /\ loc[p].pokemonA # NoPokemon => loc[p].pokemonA.nivel >= 1
              /\ loc[p].pokemonB # NoPokemon => loc[p].pokemonB.nivel >= 1
              /\ Picked(p) => loc[p].pokemonA.nivel + loc[p].pokemonB.nivel > 0

\* a battle whose loser was loaded at level 1: the loser is deleted, not stored
\* at level 0
C22_Witness ==
    /\ NoDirectUpdate
    /\ \E p \in Procs :
          /\ Succeeded(p) /\ loc[p].loser.nivel = 1
          /\ HasCall(p, Call("deleteById", loc[p].loser.id, 0))
          /\ ~stored[loc[p].loser.id].exists

----------------------------------------------------------------------------
\* the catch block of DbTransactionController.perform of request p has run:
\* the decorated controller or commit raised loc[p].error
Caught(p) == Wrapped(req[p].op) /\ loc[p].error # ""

\* C23: whenever the decorated controller or commit raised an error, the
\* caller receives that same error, after rollback was called, whatever
\* rollback did.
C23_OriginalError ==
    \A p \in Procs :
        (pc[p] = "done" /\ Caught(p)) =>
            /\ CallsTo(p, "rollback") # {}
            /\ out[p] = Thrown(loc[p].error)

\* a repository call rejected by the database (level -1, after a direct update
\* to level 0) whose rollback succeeded: the caller receives the repository's
\* error
C23_Witness ==
    \E p \in Procs :
        /\ pc[p] = "done" /\ Caught(p) /\ faults = 0
        /\ \A q \in Procs \ {p} : pc[q] = "done" /\ req[q].op = "updateNivel"
        /\ loc[p].error = "QueryError" /\ loc[p].caught = "QueryError"
        /\ out[p] = Thrown("QueryError")

----------------------------------------------------------------------------
\* the fields of the connection manager and the database are as they were
ManagerUnchanged ==
    UNCHANGED <<pool, client, transactionDb, checkedOut, stored, txState, pending, nextId>>

\* C24: commit and rollback called while no client is held fail with
\* TransactionNotFoundError; openTransaction and getDb called while no pool
\* is set (before connect, after disconnect) fail with ConnectionNotFoundError;
\* each of these calls leaves the manager and the database as they were.
C24_Preconditions ==
    [][/\ (req'[1].op \in {"commit", "rollback"} /\ client = NoClient) =>
            /\ out'[1] = Thrown("TransactionNotFoundError")
            /\ ManagerUnchanged
       /\ (req'[1].op \in {"openTransaction", "getDb"} /\ ~pool) =>
            /\ out'[1] = Thrown("ConnectionNotFoundError")
            /\ ManagerUnchanged]_vars

\* after connect, openTransaction and disconnect the manager holds no pool, no
\* client and no transaction handle, and getDb has thrown
C24_Witness ==
    /\ req[1].op = "getDb" /\ out[1] = Thrown("ConnectionNotFoundError")
    /\ ~pool /\ client = NoClient /\ transactionDb = NoTxDb
    /\ \E c \in Clients : txState[c] = "open"

----------------------------------------------------------------------------
\* the caller of request p receives the battle result in this step
ResultDelivered(p) == req[p].op = "battle" /\ out[p].st # "ok" /\ out'[p].st = "ok"

\* C25: the battle result is delivered by the step in which the COMMIT that
\* db.commit() sent has run without error, and by no other: commit was called,
\* rollback was not; and a request whose commit raised an error ends with an
\* error, never with the result.
C25_ResultAfterCommit ==
    /\ [](\A p \in Procs :
            /\ Succeeded(p) =>
                  /\ CallsTo(p, "commit") # {} /\ CallsTo(p, "rollback") = {}
                  /\ loc[p].error = "" /\ loc[p].performed = "returned"
            /\ (req[p].op = "battle" /\ loc[p].performed = "returned" /\ loc[p].error # "") =>
                  /\ out[p].st # "ok"
                  /\ pc[p] = "done" => out[p].st = "throw")
    /\ [][\A p \in Procs :
            ResultDelivered(p) =>
                /\ pc[p] = "commit" /\ stmt[p].k = "COMMIT" /\ stmt[p].behind = {}
                /\ stmt[p].h \in Clients
                /\ txState[stmt[p].h] # "broken" /\ txState'[stmt[p].h] = "none"
                /\ faults' = faults
                /\ out'[p] = loc[p].response]_vars

\* a battle answered with its result after its COMMIT stored its writes
C25_Witness ==
    \E p \in Procs :
        /\ Succeeded(p) /\ Alone(p)
        /\ stored[loc[p].winner.id].by = p
        /\ stored[loc[p].winner.id].nivel = out[p].vencedor.nivel

----------------------------------------------------------------------------
RECURSIVE SumOver(_, _)
\* the sum of level[i] over the ids i of S
SumOver(level, S) ==
    IF S = {} THEN 0
    ELSE LET i == CHOOSE x \in S : TRUE IN level[i] + SumOver(level, S \ {i})

\* the sum of the levels of the persisted pokemons that request q did not create
TotalLevel(q) ==
    SumOver([i \in Ids |-> IF stored[i].exists /\ stored[i].by # q THEN stored[i].nivel ELSE 0],
            Ids)

\* the sum of the levels when the server started
InitialLevel == SumOver([i \in Ids |-> IF i <= NumInit THEN 1 + (i % 2) ELSE 0], Ids)

\* request q is none, or one that writes no level of a stored pokemon
WritesNoLevel(q) == req[q].op \in {"none", "create", "updateTreinador"}

\* C26: once a battle has been answered with its result, and every other
\* request is one that is not a battle and writes no level (a create or a
\* trainer update), the levels of the persisted pokemons, those just created
\* apart, sum to what they summed to before the battle.
C26_Conservation ==
    \A p \in Procs :
        (Succeeded(p) /\ \A q \in Procs \ {p} : WritesNoLevel(q)) =>
            \A q \in Procs \ {p} : TotalLevel(q) = InitialLevel

\* a battle that ran alone and deleted its loser: the winner's gain makes up
\* for the deleted level
C26_Witness ==
    \E p \in Procs :
        /\ Succeeded(p) /\ Alone(p)
        /\ loc[p].newLoserLevel = 0 /\ ~stored[loc[p].loser.id].exists
        /\ stored[loc[p].winner.id].nivel = loc[p].winner.nivel + 1
        /\ \A q \in Procs \ {p} : TotalLevel(q) = InitialLevel

----------------------------------------------------------------------------
\* no request is in flight
Quiescent == \A p \in Procs : pc[p] \in {"new", "done"}

\* C27: in every interleaving of requests, none of which meets a connection
\* failure, once every request has ended no pool client is checked out and
\* none is inside a transaction that BEGIN opened.
C27_NoClientLeak ==
    (Quiescent /\ faults = 0) =>
        \A c \in Clients : ~checkedOut[c] /\ txState[c] \notin {"open", "aborted"}

\* two wrapped requests have ended and every client is back in the pool,
\* outside any transaction
C27_Witness ==
    /\ \A p \in Procs : pc[p] = "done" /\ Wrapped(req[p].op) /\ out[p].st # "throw"
    /\ \A c \in Clients : ~checkedOut[c] /\ txState[c] = "none"

----------------------------------------------------------------------------
\* request p has a statement in flight
InFlight(p) == stmt[p].k # "none"

\* C28: every statement a request has in flight, a repository call as well as
\* BEGIN, COMMIT and ROLLBACK, was issued on the client that the request's own
\* openTransaction checked out, or on the pool if the request opened no
\* transaction; never on the client of another request.
C28_Isolation ==
    \A p \in Procs :
        InFlight(p) =>
            /\ Wrapped(req[p].op) => stmt[p].h = loc[p].ownClient
            /\ ~Wrapped(req[p].op) => stmt[p].h = PoolDb
            /\ \A q \in Procs \ {p} :
                  (pc[q] # "done" /\ loc[q].ownClient # NoClient) =>
                      stmt[p].h # loc[q].ownClient

\* two overlapping requests, each with a repository call on its own client
C28_Witness ==
    /\ \A p \in Procs :
          /\ InFlight(p) /\ Wrapped(req[p].op) /\ loc[p].resolved >= 1
          /\ stmt[p].k \notin {"BEGIN", "COMMIT", "ROLLBACK"}
          /\ stmt[p].h = loc[p].ownClient
    /\ loc[1].ownClient # loc[2].ownClient

----------------------------------------------------------------------------
\* a pokemon of the given id and level
PokemonAt(id, nivel) == PokemonModel(id, Row("pikachu", "Ash", nivel, 0))

\* the battle of p selected a winner among pokemons of which one had level 0
LevelZeroBattle(p) ==
    /\ req[p].op = "battle" /\ Picked(p)
    /\ (loc[p].pokemonA.nivel = 0 \/ loc[p].pokemonB.nivel = 0)

----------------------------------------------------------------------------
\* the battle of p failed a precondition
PreconditionFailed(p) ==
    /\ req[p].op = "battle"
    /\ loc[p].caught \in {"Pokemon not found", "Cannot battle the same pokemon"}

\* request p is the last writer of the level or the existence of row id, in
\* the table or in a transaction
WrittenBy(p, id) ==
    \/ stored[id].by = p
    \/ \E c \in Clients : id \in DOMAIN pending[c] /\ pending[c][id].by = p

\* C30: a battle writes the rows of its winner and of its loser only; each of
\* its updateNivel calls leaves the existence, the tipo and the treinador of the
\* row, and every other row, as they were; its deleteById removes the row of
\* the loser and touches no other row; its loads change nothing; and a battle
\* that fails a precondition calls no mutation and writes no row.
C30_BattleFrame ==
    /\ [](\A p \in Procs :
            req[p].op = "battle" =>
                /\ \A i \in Ids :
                      WrittenBy(p, i) =>
                          /\ Picked(p) /\ i \in {loc[p].winner.id, loc[p].loser.id}
                          /\ {loc[p].winner.id, loc[p].loser.id} = {req[p].a, req[p].b}
                /\ PreconditionFailed(p) =>
                      /\ MutationCalls(p) = {}
                      /\ \A i \in Ids : ~WrittenBy(p, i))
    /\ [][\A p \in Procs :
            req[p].op = "battle" =>
                /\ Returned(p, "select") =>
                      \A c \in Clients : Visible(Db', c) = Visible(Db, c)
                /\ Returned(p, "updateNivel") =>
                      /\ stmt[p].id \in {loc[p].winner.id, loc[p].loser.id}
                      /\ OthersUntouched(stmt[p].id)
                      /\ \A c \in Clients :
                            LET old == Visible(Db, c)[stmt[p].id]
                                new == Visible(Db', c)[stmt[p].id]
                            IN /\ new.exists = old.exists /\ new.tipo = old.tipo
                               /\ new.treinador = old.treinador
                /\ Returned(p, "delete") =>
                      /\ stmt[p].id = loc[p].loser.id
                      /\ OthersUntouched(stmt[p].id)]_vars

\* a battle that ran alone: the winner and the loser carry its writes, with the
\* tipo and treinador they were loaded with, and no other row does
C30_Witness ==
    \E p \in Procs :
        /\ Succeeded(p) /\ Alone(p) /\ loc[p].newLoserLevel > 0
        /\ \A i \in Ids : stored[i].by = p <=> i \in {loc[p].winner.id, loc[p].loser.id}
        /\ \A m \in {loc[p].winner, loc[p].loser} :
              /\ stored[m.id].tipo = m.tipo /\ stored[m.id].treinador = m.treinador
              /\ stored[m.id].nivel # m.nivel

====
